---- MODULE Spec2Model ----
(***************************************************************************)
(* Model of pyaoscx/bgp_neighbor.py: one BgpNeighbor object (`me`) with    *)
(* all of its fields, the parent BgpRouter's bgp_neighbors list, and the   *)
(* other BgpNeighbor objects registered in that list.  The code reads only *)
(* the id of the other list entries (lines 60-67 and 363-366), so they are *)
(* represented by their identity (a handle) and their id.                  *)
(***************************************************************************)
EXTENDS Integers, Sequences, FiniteSets, TLC

\* Bounds of the model.
MaxObjs == 3
MaxPrior == 2

\* Values the ids and attributes range over.
Ids == {"10.0.0.1", "10.0.0.2"}
Vals == {"65001"}
MyId == "10.0.0.1"
IdKey == "ip_or_ifname_or_group_name"

\* Exception classes and return values of the public methods.
\* ResponseError(method, e): it names the HTTP method of the request.
ResponseError(m) == "ResponseError('" \o m \o "')"
GenericOperationError == "GenericOperationError"
VerificationError == "VerificationError"
AttributeError == "AttributeError"
PlainException == "Exception"

VARIABLES
    bgp_neighbors,       \* parent_bgp_router.bgp_neighbors: a list of handles
    ip,                  \* ip[h]: ip_or_ifname_or_group_name of object h
    me,                  \* the handle of the object whose fields are below
    parent_materialized, \* parent_bgp_router.materialized
    materialized,        \* self.materialized
    modified,            \* self.__modified
    config_attrs,        \* self.config_attrs
    original_attributes, \* self.__original_attributes
    remote_as,           \* the attribute self.remote_as ("absent": no attribute)
    local_interface,     \* self.local_interface: absent, none, str, unmat, mat
    last                 \* the last call: method, object, outcome, requests

vars == <<bgp_neighbors, ip, me, parent_materialized, materialized, modified,
          config_attrs, original_attributes, remote_as, local_interface, last>>

\* The fields of `me` as one value.
Obj == [materialized |-> materialized, modified |-> modified,
        config_attrs |-> config_attrs,
        original_attributes |-> original_attributes,
        remote_as |-> remote_as, local_interface |-> local_interface]

\* The outcome of a call: the object afterwards, what the caller gets
\* (a return value or the exception raised), the request that failed, and
\* the calls and requests made, in order.
Out(st, result, failed, trace) ==
    [st |-> st, result |-> result, failed |-> failed, trace |-> trace]

EmptyDict == [k \in {} |-> "null"]

----------------------------------------------------------------------------
\* The parent's list.

\* The for loop of __set_bgp_router from index i on: the list grows while it
\* is iterated, and the entries appended are visited too.
RECURSIVE SetRouterLoop(_, _, _, _)
SetRouterLoop(lst, i, h, idOf) ==
    IF i > Len(lst) THEN lst
    ELSE IF idOf[lst[i]] = idOf[h]
         THEN SetRouterLoop(lst, i + 1, h, idOf)   \* rebinds the loop variable
         ELSE SetRouterLoop(Append(lst, h), i + 1, h, idOf)

\* A constructor that appends without looking for the id.
set_bgp_router_append(lst, h, idOf) == Append(lst, h)

set_bgp_router(lst, h, idOf) == SetRouterLoop(lst, 1, h, idOf)

\* list.remove(e): removes the first occurrence of e.
RECURSIVE ListRemove(_, _)
ListRemove(lst, e) ==
    IF lst = <<>> THEN lst
    ELSE IF Head(lst) = e THEN Tail(lst)
         ELSE <<Head(lst)>> \o ListRemove(Tail(lst), e)

\* The for loop of delete() from index i on: the list shrinks while it is
\* iterated, the index still advances.
RECURSIVE DeleteLoop(_, _, _, _)
DeleteLoop(lst, i, h, idOf) ==
    IF i > Len(lst) THEN lst
    ELSE IF idOf[lst[i]] = idOf[h]
         THEN DeleteLoop(ListRemove(lst, lst[i]), i + 1, h, idOf)
         ELSE DeleteLoop(lst, i + 1, h, idOf)

remove_back_reference(lst, h, idOf) == DeleteLoop(lst, 1, h, idOf)

----------------------------------------------------------------------------
\* utils: attribute mapping.  utils is not among the sources; its functions
\* are modelled as the specification describes them, as total functions.

\* The value get_attrs reads for attribute k: a deleted attribute has none.
AttrValue(st, k) ==
    IF k = "remote_as" THEN st.remote_as
    ELSE IF st.local_interface = "none" THEN "null"
    ELSE IF st.local_interface \in {"unmat", "mat"} THEN "obj"
    ELSE st.local_interface

\* utils.get_attrs(self, self.config_attrs): the configuration payload.
get_attrs(st) == [k \in st.config_attrs |-> AttrValue(st, k)]

\* d[k] = v for a dictionary d.
DictSet(d, k, v) ==
    [x \in DOMAIN d \cup {k} |-> IF x = k THEN v ELSE d[x]]

\* d.pop(k)
DictPop(d, k) == [x \in DOMAIN d \ {k} |-> d[x]]

\* utils.create_attrs(self, data): one attribute per key of the response.
create_attrs(st, data) ==
    [st EXCEPT
        !.remote_as = IF "remote_as" \in DOMAIN data
                      THEN data["remote_as"] ELSE @,
        !.local_interface = IF "local_interface" \in DOMAIN data
                            THEN (IF data["local_interface"] = "null"
                                  THEN "none" ELSE "str")
                            ELSE @]

\* utils.set_config_attrs(self, data, 'config_attrs', [id]).
set_config_attrs(st, data) ==
    [st EXCEPT !.config_attrs = DOMAIN data \ {IdKey}]

\* utils.delete_attrs(self, self.config_attrs): deletes each attribute.
delete_attrs(st) ==
    [st EXCEPT
        !.remote_as = IF "remote_as" \in st.config_attrs THEN "absent" ELSE @,
        !.local_interface = IF "local_interface" \in st.config_attrs
                            THEN "absent" ELSE @]

----------------------------------------------------------------------------
\* The methods of BgpNeighbor, as functions of the object and of what the
\* session answers.  resp is the answer to the request: "fail" (the transport
\* raises), "bad" (a response that is not ok) or "ok".

\* The response of a successful GET: the device's JSON for the entry, with
\* its id; local_interface is left out, null or a reference.
DataSet ==
    { [k \in dom |-> IF k = IdKey THEN "id"
                     ELSE IF k = "remote_as" THEN ra ELSE li] :
        dom \in { {IdKey, "remote_as"}, {IdKey, "remote_as", "local_interface"} },
        ra \in Vals, li \in {"null", "ref"} }

get(st, depthOk, sel, resp, data, ifresp) ==
    IF ~depthOk THEN Out(st, PlainException, "none", <<>>)
    ELSE IF sel = "invalid" THEN Out(st, PlainException, "none", <<>>)
    ELSE IF resp = "fail" THEN Out(st, ResponseError("GET"), "GET", <<"GET">>)
    ELSE IF resp = "bad" THEN Out(st, GenericOperationError, "GET", <<"GET">>)
    ELSE
      LET s1 == create_attrs(st, data)
          s2 == IF sel = "cfg" THEN set_config_attrs(s1, data) ELSE s1
          s3 == [s2 EXCEPT !.original_attributes =
                    IF IdKey \in DOMAIN data THEN DictPop(data, IdKey)
                    ELSE data]
      IN  IF s3.local_interface \notin {"absent", "none"}
          THEN \* Interface.from_response(...), then its get()
               IF ifresp = "ok"
               THEN Out([s3 EXCEPT !.local_interface = "mat",
                                   !.materialized = TRUE],
                        "True", "none", <<"GET", "GET_IF">>)
               ELSE Out([s3 EXCEPT !.local_interface = "unmat"],
                        "InterfaceError", "GET_IF", <<"GET", "GET_IF">>)
          ELSE Out([s3 EXCEPT !.materialized = TRUE],
                   "True", "none", <<"GET">>)

\* update() reaches the comparison: the attribute local_interface exists,
\* and it is None or an object with get_info_format() (not a str).
UpdatePayloadOk(st) == st.local_interface \in {"none", "unmat", "mat"}

\* bgp_neighbor_data of update().
UpdatePayload(st) ==
    IF st.local_interface # "none"
    THEN DictSet(get_attrs(st), "local_interface", "ref")
    ELSE get_attrs(st)

\* An update() without the comparison: it always sends the PUT.
update_no_compare(st, resp) ==
    IF ~UpdatePayloadOk(st) THEN Out(st, AttributeError, "none", <<>>)
    ELSE IF resp = "fail" THEN Out(st, ResponseError("PUT"), "PUT", <<"PUT">>)
    ELSE IF resp = "bad" THEN Out(st, GenericOperationError, "PUT", <<"PUT">>)
    ELSE Out([st EXCEPT !.original_attributes = UpdatePayload(st)],
             "True", "none", <<"PUT">>)

\* An update() that records the new original attributes before the PUT is
\* answered.
update_snapshot_early(st, resp) ==
    LET s1 == [st EXCEPT !.original_attributes = UpdatePayload(st)]
    IN  IF ~UpdatePayloadOk(st) THEN Out(st, AttributeError, "none", <<>>)
        ELSE IF UpdatePayload(st) = st.original_attributes
        THEN Out(st, "False", "none", <<>>)
        ELSE IF resp = "fail"
        THEN Out(s1, ResponseError("PUT"), "PUT", <<"PUT">>)
        ELSE IF resp = "bad"
        THEN Out(s1, GenericOperationError, "PUT", <<"PUT">>)
        ELSE Out(s1, "True", "none", <<"PUT">>)

update(st, resp) ==
    IF ~UpdatePayloadOk(st) THEN Out(st, AttributeError, "none", <<>>)
    ELSE IF UpdatePayload(st) = st.original_attributes
    THEN Out(st, "False", "none", <<>>)
    ELSE IF resp = "fail" THEN Out(st, ResponseError("PUT"), "PUT", <<"PUT">>)
    ELSE IF resp = "bad" THEN Out(st, GenericOperationError, "PUT", <<"PUT">>)
    ELSE Out([st EXCEPT !.original_attributes = UpdatePayload(st)],
             "True", "none", <<"PUT">>)

\* The checks of create() without the one of local_interface.materialized.
CreateCheckNoMaterialized(st) ==
    IF st.local_interface = "none" THEN AttributeError ELSE "ok"

\* The checks of create() before its request: "ok" or the exception raised.
CreateCheck(st) ==
    IF st.local_interface = "none" THEN AttributeError
    ELSE IF st.local_interface = "unmat" THEN VerificationError
    ELSE "ok"

create(st, resp, dsel, gresp, data, ifresp) ==
    IF CreateCheck(st) # "ok" THEN Out(st, CreateCheck(st), "none", <<>>)
    ELSE IF resp = "fail" THEN Out(st, ResponseError("POST"), "POST", <<"POST">>)
    ELSE IF resp = "bad" THEN Out(st, GenericOperationError, "POST", <<"POST">>)
    ELSE LET g == get(st, TRUE, dsel, gresp, data, ifresp)
         IN  Out(g.st, g.result, g.failed, <<"POST">> \o g.trace)

\* An apply() that dispatches the wrong way round.
apply_swapped(st, pmat, presp, resp, dsel, gresp, data, ifresp) ==
    IF ~pmat /\ presp # "ok"
    THEN [out |-> Out(st, "ParentError", "parent",
                      <<"parent.apply", "parent.raise">>),
          pmat |-> pmat]
    ELSE
      LET pre == IF pmat THEN <<>> ELSE <<"parent.apply">>
          r == IF ~st.materialized THEN update(st, resp)
               ELSE create(st, resp, dsel, gresp, data, ifresp)
          call == IF ~st.materialized THEN "update" ELSE "create"
          st2 == IF r.result \in {"True", "False"}
                 THEN [r.st EXCEPT !.modified = (r.result = "True")]
                 ELSE r.st
      IN  [out |-> Out(st2, r.result, r.failed, pre \o <<call>> \o r.trace),
           pmat |-> TRUE]

\* An apply() that goes on when the parent's apply() has raised.
apply_parent_ignored(st, pmat, presp, resp, dsel, gresp, data, ifresp) ==
    LET pre == IF pmat THEN <<>>
               ELSE IF presp = "ok" THEN <<"parent.apply">>
               ELSE <<"parent.apply", "parent.raise">>
        r == IF st.materialized THEN update(st, resp)
             ELSE create(st, resp, dsel, gresp, data, ifresp)
        call == IF st.materialized THEN "update" ELSE "create"
        st2 == IF r.result \in {"True", "False"}
               THEN [r.st EXCEPT !.modified = (r.result = "True")]
               ELSE r.st
    IN  [out |-> Out(st2, r.result, r.failed, pre \o <<call>> \o r.trace),
         pmat |-> pmat \/ presp = "ok"]

\* apply(): pmat is the parent's materialized, presp what the parent's
\* apply() does.  The outcome carries the parent's materialized afterwards.
apply(st, pmat, presp, resp, dsel, gresp, data, ifresp) ==
    IF ~pmat /\ presp # "ok"
    THEN [out |-> Out(st, "ParentError", "parent",
                      <<"parent.apply", "parent.raise">>),
          pmat |-> pmat]
    ELSE
      LET pre == IF pmat THEN <<>> ELSE <<"parent.apply">>
          r == IF st.materialized THEN update(st, resp)
               ELSE create(st, resp, dsel, gresp, data, ifresp)
          call == IF st.materialized THEN "update" ELSE "create"
          st2 == IF r.result \in {"True", "False"}
                 THEN [r.st EXCEPT !.modified = (r.result = "True")]
                 ELSE r.st
      IN  [out |-> Out(st2, r.result, r.failed, pre \o <<call>> \o r.trace),
           pmat |-> TRUE]

was_modified == modified

----------------------------------------------------------------------------
\* The state machine.

Resps == {"fail", "bad", "ok"}
\* A selector: valid and configurable, valid and not configurable, invalid.
Selectors == {"cfg", "other", "invalid"}

Called(op, h, o) ==
    [op |-> op, h |-> h, result |-> o.result, failed |-> o.failed,
     trace |-> o.trace]

SetObj(st) ==
    /\ materialized' = st.materialized
    /\ modified' = st.modified
    /\ config_attrs' = st.config_attrs
    /\ original_attributes' = st.original_attributes
    /\ remote_as' = st.remote_as
    /\ local_interface' = st.local_interface

objvars == <<materialized, modified, config_attrs, original_attributes,
             remote_as, local_interface>>

\* The state after BgpNeighbor(session, MyId, parent, **kwargs) for `me`,
\* the parent's list holding k entries with distinct ids before.  The kwargs
\* give remote_as or not, and local_interface as a name, as an Interface
\* object, or not.
Init ==
    \E k \in 0..MaxPrior :
      \E ids \in [1..(k + 1) -> Ids] :
        /\ \A i, j \in 1..k : ids[i] = ids[j] => i = j
        /\ ids[k + 1] = MyId
        /\ ip = ids
        /\ me = k + 1
        /\ bgp_neighbors = set_bgp_router([i \in 1..k |-> i], k + 1, ids)
        /\ parent_materialized \in BOOLEAN
        /\ materialized = FALSE
        /\ modified = FALSE
        /\ config_attrs = {}
        /\ original_attributes = EmptyDict
        /\ remote_as \in {"absent"} \cup Vals
        /\ local_interface \in {"absent", "str", "unmat", "mat"}
        /\ last = [op |-> "init", h |-> k + 1, result |-> "None",
                   failed |-> "none", trace |-> <<>>]

\* BgpNeighbor(session, id, parent), from_uri and from_response for another
\* object: it registers in the parent's list.
Construct(id) ==
    /\ Len(ip) < MaxObjs
    /\ ip' = Append(ip, id)
    /\ bgp_neighbors' = set_bgp_router(bgp_neighbors, Len(ip) + 1, ip')
    /\ last' = [op |-> "init", h |-> Len(ip) + 1, result |-> "None",
                failed |-> "none", trace |-> <<>>]
    /\ UNCHANGED <<me, parent_materialized, objvars>>

Get(depthOk, sel, resp, data, ifresp) ==
    LET o == get(Obj, depthOk, sel, resp, data, ifresp)
    IN  /\ SetObj(o.st)
        /\ last' = Called("get", me, o)
        /\ UNCHANGED <<bgp_neighbors, ip, me, parent_materialized>>

Update(resp) ==
    LET o == update(Obj, resp)
    IN  /\ SetObj(o.st)
        /\ last' = Called("update", me, o)
        /\ UNCHANGED <<bgp_neighbors, ip, me, parent_materialized>>

Create(resp, dsel, gresp, data, ifresp) ==
    LET o == create(Obj, resp, dsel, gresp, data, ifresp)
    IN  /\ SetObj(o.st)
        /\ last' = Called("create", me, o)
        /\ UNCHANGED <<bgp_neighbors, ip, me, parent_materialized>>

Apply(presp, resp, dsel, gresp, data, ifresp) ==
    LET a == apply(Obj, parent_materialized, presp, resp, dsel, gresp, data,
                   ifresp)
    IN  /\ SetObj(a.out.st)
        /\ parent_materialized' = a.pmat
        /\ last' = Called("apply", me, a.out)
        /\ UNCHANGED <<bgp_neighbors, ip, me>>

\* delete() of object h; the fields of the other objects are not kept.
Delete(h, resp) ==
    IF resp # "ok"
    THEN /\ last' = [op |-> "delete", h |-> h,
                     result |-> IF resp = "fail" THEN ResponseError("DELETE")
                                ELSE GenericOperationError,
                     failed |-> "DELETE", trace |-> <<"DELETE">>]
         /\ UNCHANGED <<bgp_neighbors, ip, me, parent_materialized, objvars>>
    ELSE /\ bgp_neighbors' = remove_back_reference(bgp_neighbors, h, ip)
         /\ IF h = me
            THEN SetObj(delete_attrs(Obj))
            ELSE UNCHANGED objvars
         /\ last' = [op |-> "delete", h |-> h, result |-> "None",
                     failed |-> "none", trace |-> <<"DELETE">>]
         /\ UNCHANGED <<ip, me, parent_materialized>>

\* The caller assigns an attribute of the object.
SetRemoteAs(v) ==
    /\ remote_as' = v
    /\ last' = [op |-> "setattr", h |-> me, result |-> "None",
                failed |-> "none", trace |-> <<>>]
    /\ UNCHANGED <<bgp_neighbors, ip, me, parent_materialized, materialized,
                   modified, config_attrs, original_attributes,
                   local_interface>>

SetLocalInterface(v) ==
    /\ local_interface' = v
    /\ last' = [op |-> "setattr", h |-> me, result |-> "None",
                failed |-> "none", trace |-> <<>>]
    /\ UNCHANGED <<bgp_neighbors, ip, me, parent_materialized, materialized,
                   modified, config_attrs, original_attributes, remote_as>>

\* What the session can answer to get(): the request fails, or it returns
\* data and the GET of the Interface then succeeds or fails.
GetAnswers ==
    { [resp |-> r, data |-> CHOOSE d \in DataSet : TRUE, ifresp |-> "ok"] :
        r \in {"fail", "bad"} }
    \cup { [resp |-> "ok", data |-> d, ifresp |-> i] :
             d \in DataSet, i \in {"ok", "fail"} }

\* The arguments of get() and the answers: an invalid depth or selector
\* ends the call before any answer.
GetInputs ==
    { [depthOk |-> FALSE, sel |-> "cfg", a |-> CHOOSE a \in GetAnswers : TRUE],
      [depthOk |-> TRUE, sel |-> "invalid",
       a |-> CHOOSE a \in GetAnswers : TRUE] }
    \cup { [depthOk |-> TRUE, sel |-> s, a |-> a] :
             s \in Selectors \ {"invalid"}, a \in GetAnswers }

\* The answers to create(): to its POST, and then to its get() with the
\* session's default depth and selector.
CreateInputs ==
    { [resp |-> r, dsel |-> "cfg", a |-> CHOOSE a \in GetAnswers : TRUE] :
        r \in {"fail", "bad"} }
    \cup { [resp |-> "ok", dsel |-> s, a |-> a] :
             s \in {"cfg", "other"}, a \in GetAnswers }

\* What the parent's apply() does, when apply() calls it: it raises (and the
\* answers in are never asked for) or it materializes the parent.
ParentAnswers(in) ==
    IF ~parent_materialized /\ in = (CHOOSE i \in CreateInputs : TRUE)
    THEN {"ok", "fail"} ELSE {"ok"}

NextNeighbor ==
    \/ \E in \in GetInputs :
         Get(in.depthOk, in.sel, in.a.resp, in.a.data, in.a.ifresp)
    \/ \E resp \in Resps : Update(resp)
    \/ \E in \in CreateInputs :
         Create(in.resp, in.dsel, in.a.resp, in.a.data, in.a.ifresp)
    \/ \E in \in CreateInputs : \E presp \in ParentAnswers(in) :
         Apply(presp, in.resp, in.dsel, in.a.resp, in.a.data, in.a.ifresp)
    \/ \E resp \in Resps : Delete(me, resp)
    \/ \E v \in Vals : SetRemoteAs(v)
    \/ \E v \in {"none", "str", "unmat", "mat"} : SetLocalInterface(v)

NextRouter ==
    \/ \E id \in Ids : Construct(id)
    \/ \E h \in 1..Len(ip), resp \in Resps : Delete(h, resp)

\* The calls on one neighbor, its parent's list as constructed.
Spec == Init /\ [][NextNeighbor]_vars

\* The constructions and deletions of the neighbors of one router.
SpecRouter == Init /\ [][NextRouter]_vars

\* The same, the parent's list empty before the first construction.
InitEmpty == Init /\ Len(ip) = 1

SpecEmpty == InitEmpty /\ [][NextRouter]_vars

----------------------------------------------------------------------------
\* Properties.

Count(seq, x) == Cardinality({i \in 1..Len(seq) : seq[i] = x})

\* The entries of lst whose id is not x, in order.
RECURSIVE WithoutId(_, _, _)
WithoutId(lst, idOf, x) ==
    IF lst = <<>> THEN <<>>
    ELSE IF idOf[Head(lst)] = x THEN WithoutId(Tail(lst), idOf, x)
         ELSE <<Head(lst)>> \o WithoutId(Tail(lst), idOf, x)

\* The DELETE of the last call was answered with success.
Deleted(l) == l.op = "delete" /\ l.failed = "none"

\* C1: starting from an empty list, after any constructions and deletions
\* the parent's bgp_neighbors never holds two entries with the same id.
C1_UniqueIds ==
    \A i, j \in 1..Len(bgp_neighbors) :
        ip[bgp_neighbors[i]] = ip[bgp_neighbors[j]] => i = j

\* Two neighbors with the same id were constructed, then one was deleted.
C1_Witness ==
    /\ Len(ip) >= 2
    /\ ip[2] = ip[1]
    /\ Deleted(last)

\* C2: a construction with id X registers the new object: the list then
\* holds it exactly once; an entry with id X is replaced by it and the
\* length is unchanged, otherwise it is appended.
C2_ConstructRegisters ==
    [][last'.op = "init" =>
        LET h == last'.h
            pre == bgp_neighbors
            post == bgp_neighbors'
        IN  /\ Count(post, h) = 1
            /\ IF \E i \in 1..Len(pre) : ip'[pre[i]] = ip'[h]
               THEN /\ Len(post) = Len(pre)
                    /\ \A i \in 1..Len(pre) :
                         post[i] = IF ip'[pre[i]] = ip'[h] THEN h ELSE pre[i]
               ELSE post = Append(pre, h)]_vars

\* C3: a successful delete() of a neighbor with id X removes the entries
\* with id X and nothing else: the other entries stay, in the same order.
C3_DeleteRemovesId ==
    [][Deleted(last') =>
        bgp_neighbors' = WithoutId(bgp_neighbors, ip, ip[last'.h])]_vars

\* The request a method sends.
Method(op) ==
    CASE op = "get" -> "GET"
      [] op = "update" -> "PUT"
      [] op = "create" -> "POST"
      [] op = "delete" -> "DELETE"
      [] OTHER -> "none"

\* The last call was update(), or an apply() that called update().
CalledUpdate(l) ==
    l.op = "update" \/ (l.op = "apply" /\ Count(l.trace, "update") = 1)

\* The last call was create(), or an apply() that called create().
CalledCreate(l) ==
    l.op = "create" \/ (l.op = "apply" /\ Count(l.trace, "create") = 1)

\* C4: update() sends no PUT and returns False when its payload equals the
\* original attributes, which it leaves as they are; so does an update()
\* right after an update() that returned True.
C4_UpdateNoop ==
    [][/\ (/\ CalledUpdate(last')
           /\ UpdatePayloadOk(Obj)
           /\ UpdatePayload(Obj) = original_attributes)
          => /\ last'.result = "False"
             /\ Count(last'.trace, "PUT") = 0
             /\ original_attributes' = original_attributes
       /\ (last.op = "update" /\ last.result = "True" /\ last'.op = "update")
          => /\ last'.result = "False"
             /\ last'.trace = <<>>]_vars

\* An update() that found nothing to send, after a GET that returned the
\* local_interface.
C4_Witness ==
    /\ last.op = "update"
    /\ last.result = "False"
    /\ materialized
    /\ "local_interface" \in DOMAIN original_attributes
    /\ "remote_as" \in config_attrs

\* C5, as claimed: apply() on an unmaterialized neighbor with a materialized
\* parent calls create() once and never update(), with exactly one POST and
\* no PUT; on a materialized neighbor it calls update() and never create();
\* what it returns is what was_modified() returns afterwards.
C5_ApplyDispatch ==
    [][last'.op = "apply" =>
        LET tr == last'.trace
        IN  /\ (~materialized /\ parent_materialized)
               => /\ Count(tr, "create") = 1
                  /\ Count(tr, "update") = 0
                  /\ Count(tr, "POST") = 1
                  /\ Count(tr, "PUT") = 0
            /\ materialized
               => /\ Count(tr, "update") = 1
                  /\ Count(tr, "create") = 0
            /\ last'.result \in {"True", "False"}
               => was_modified' = (last'.result = "True")]_vars

\* C5, amended: the POST is sent when the checks of create() pass, and a
\* materialized neighbor's update() is called unless the parent's apply()
\* raises first.
C5_ApplyDispatchAmended ==
    [][last'.op = "apply" =>
        LET tr == last'.trace
        IN  /\ (~materialized /\ parent_materialized)
               => /\ Count(tr, "create") = 1
                  /\ Count(tr, "update") = 0
                  /\ Count(tr, "POST") = IF CreateCheck(Obj) = "ok" THEN 1 ELSE 0
                  /\ Count(tr, "PUT") = 0
            /\ materialized
               => /\ Count(tr, "update") =
                       IF Count(tr, "parent.raise") = 0 THEN 1 ELSE 0
                  /\ Count(tr, "create") = 0
                  /\ Count(tr, "POST") = 0
            /\ last'.result \in {"True", "False"}
               => was_modified' = (last'.result = "True")]_vars

\* An apply() that created the neighbor and returned True.
C5_Witness ==
    /\ last.op = "apply"
    /\ last.trace = <<"create", "POST", "GET">>
    /\ last.result = "True"
    /\ was_modified
    /\ materialized

\* C6: create() with a local_interface that is an object and is not
\* materialized raises VerificationError before any request, and leaves
\* materialized as it is.
C6_CreateUnmaterializedInterface ==
    [][(CalledCreate(last') /\ local_interface = "unmat")
       => /\ last'.result = VerificationError
          /\ \A m \in {"POST", "GET", "PUT", "DELETE", "GET_IF"} :
               Count(last'.trace, m) = 0
          /\ materialized' = materialized]_vars

\* A create() that raised VerificationError on an unmaterialized neighbor.
C6_Witness ==
    /\ last.op = "create"
    /\ last.result = VerificationError
    /\ local_interface = "unmat"
    /\ ~materialized

\* C7: after a successful delete() the neighbor is unmaterialized and out of
\* the parent's list, and an apply() right after it calls create(), not
\* update().
C7_DeleteDetaches ==
    [][/\ (Deleted(last') /\ last'.h = me)
          => /\ ~materialized'
             /\ Count(bgp_neighbors', me) = 0
       /\ (Deleted(last) /\ last.h = me /\ last'.op = "apply"
             /\ Count(last'.trace, "parent.raise") = 0)
          => /\ Count(last'.trace, "create") = 1
             /\ Count(last'.trace, "update") = 0]_vars

\* C8: apply() with an unmaterialized parent calls the parent's apply()
\* first and once; when that raises, the neighbor sends nothing and keeps
\* its materialized and modified; with a materialized parent it does not
\* call it.
C8_ParentFirst ==
    [][last'.op = "apply" =>
        LET tr == last'.trace
        IN  /\ ~parent_materialized
               => /\ Len(tr) >= 1
                  /\ tr[1] = "parent.apply"
                  /\ Count(tr, "parent.apply") = 1
            /\ Count(tr, "parent.raise") > 0
               => /\ tr = <<"parent.apply", "parent.raise">>
                  /\ materialized' = materialized
                  /\ modified' = modified
            /\ parent_materialized => Count(tr, "parent.apply") = 0]_vars

\* An apply() that applied the parent, then created the neighbor.
C8_Witness ==
    /\ last.op = "apply"
    /\ last.trace = <<"parent.apply", "create", "POST", "GET">>
    /\ parent_materialized
    /\ materialized

\* C9: get() with an invalid depth or selector raises VerificationError,
\* sends no GET, and leaves materialized, config_attrs and the original
\* attributes as they are.
C9_InvalidGetRaisesVerificationError ==
    [][\A in \in GetInputs :
        (/\ ~in.depthOk \/ in.sel = "invalid"
         /\ Get(in.depthOk, in.sel, in.a.resp, in.a.data, in.a.ifresp))
        => /\ last'.result = VerificationError
           /\ last'.trace = <<>>
           /\ UNCHANGED <<materialized, config_attrs,
                          original_attributes>>]_vars

\* C10: when the request of get(), update(), create() or delete() fails,
\* the call has sent that one request, the caller gets the ResponseError
\* naming the method or the GenericOperationError, and materialized, the
\* original attributes and the parent's list are as before.
C10_FailedRequest ==
    [][(/\ last'.op \in {"get", "update", "create", "delete"}
        /\ last'.failed = Method(last'.op))
       => /\ last'.trace = <<Method(last'.op)>>
          /\ last'.result \in {ResponseError(Method(last'.op)),
                                GenericOperationError}
          /\ UNCHANGED <<materialized, original_attributes,
                         bgp_neighbors>>]_vars

\* A delete() that failed, the neighbor materialized and in the parent's
\* list.
C10_Witness ==
    /\ last.op = "delete"
    /\ last.h = me
    /\ last.failed = "DELETE"
    /\ materialized
    /\ Count(bgp_neighbors, me) = 1
    /\ original_attributes # EmptyDict

====
